---- MODULE Spec2Model ----
(***************************************************************************)
(* Model of the pre-registration server of sujumayas/registeraton          *)
(* (src/server.js): the SQLite tables participants and                     *)
(* pre_registered_participants, the upload (replace) handler, the convert  *)
(* (register pre-registered) handler, the list / clear / delete handlers.  *)
(* Every db.run / db.get / db.all of a handler is one step: node-sqlite3   *)
(* runs each statement as its own autocommit transaction and the handlers  *)
(* chain them through callbacks, so statements of different requests       *)
(* interleave between any two of them.                                     *)
(***************************************************************************)
EXTENDS Integers, Sequences, FiniteSets, TLC

\* ------------------------------------------------------------------ bounds
MaxPreId == 2      \* pre_registered_participants rows ever inserted
MaxPartId == 2     \* participants rows ever inserted
MaxChanged == 1    \* notifications of candidate changes on their way to the page

Null == "NULL"     \* SQL NULL / JS undefined / an empty spreadsheet cell

Events == {1, 2}
Uploads == {"u1", "u2"}      \* concurrent upload requests
Converts == {"c1", "c2"}     \* concurrent convert requests
Clients == {"s1", "s2"}      \* browsers that may open GET /events

\* ------------------------------------------------- spreadsheets (inputs)
\* A parsed row (XLSX.utils.sheet_to_json): header -> cell, Null when empty.
Headers == {"Nombre", "Correo", "Cedula", "Area"}

RowAna == [Nombre |-> "Ana", Correo |-> "ana@x.org", Cedula |-> "11", Area |-> "Ops"]
RowBob == [Nombre |-> "Bob", Correo |-> Null, Cedula |-> "22", Area |-> Null]
RowCid == [Nombre |-> "Cid", Correo |-> "cid@x.org", Cedula |-> Null, Area |-> "Ops"]

Files == { <<>>, <<RowAna>>, <<RowCid, RowBob>>, <<RowAna, RowBob>> }

\* the uploads that are tried: every file to event 1, one file to event 2
UploadInputs == {<<1, f>> : f \in Files} \cup {<<2, <<RowAna>>>>}

\* the uploads that fill the candidate sets while converts are watched
FillInputs == {<<1, <<RowAna>>>>, <<1, <<RowCid, RowBob>>>>, <<2, <<RowAna>>>>}

\* row[col] in JS: undefined for a column the row does not have.
Cell(row, col) == IF col \in DOMAIN row THEN row[col] ELSE Null

\* ------------------------------------------- oracle responses (inputs)
NoMappings == [full_name |-> Null, email |-> Null, dni |-> Null, area |-> Null]
GoodMappings == [full_name |-> "Nombre", email |-> "Correo", dni |-> "Cedula", area |-> "Area"]

\* kind "throw": anthropic.messages.create rejects;
\* kind "badjson": JSON.parse of the reply throws;
\* kind "json": the reply parses; the handler uses it as it is.
OracleThrows == [kind |-> "throw", identifier_type |-> Null, identifier_column |-> Null, mappings |-> NoMappings]
OracleBadJson == [kind |-> "badjson", identifier_type |-> Null, identifier_column |-> Null, mappings |-> NoMappings]
OracleGood == [kind |-> "json", identifier_type |-> "dni", identifier_column |-> "Cedula", mappings |-> GoodMappings]
\* identifier_column names a column that is not a header of the file
OracleBadIdColumn == [kind |-> "json", identifier_type |-> "dni", identifier_column |-> "DNI", mappings |-> GoodMappings]
\* a non-null mapping names a column that is not a header of the file
OracleBadEmailColumn == [kind |-> "json", identifier_type |-> "dni", identifier_column |-> "Cedula",
                         mappings |-> [GoodMappings EXCEPT !.email = "Mail"]]
\* the reply is the JSON object {}: it parses, and has none of the fields
\* (analysis.mappings is never read, because every row is skipped first)
OracleEmptyObject == [kind |-> "json", identifier_type |-> Null, identifier_column |-> Null, mappings |-> NoMappings]

OracleResponses == {OracleThrows, OracleBadJson, OracleGood, OracleBadIdColumn,
                    OracleBadEmailColumn, OracleEmptyObject}

\* req.body.area of a convert request: absent
NoOverride == {Null}
\* req.body.area of a convert request: absent, or an override
AreaOverrides == {Null, "HR"}

\* ------------------------------------------------------------------ state
VARIABLES
  prereg,        \* table pre_registered_participants: id -> row
                 \* (registered_participant_id 0 stands for NULL)
  participants,  \* table participants: id -> row
  nextPreId,     \* AUTOINCREMENT of pre_registered_participants
  nextPartId,    \* AUTOINCREMENT of participants
  upc, uev, ufile, uqueue,                  \* upload requests
  cpc, cev, cid, carea, cpreReg, cinserted, \* convert requests
  unew,          \* the candidates the upload's forEach derived from its file
                 \* (insertedCount is their number); kept as history once
                 \* the upload has answered
  origin,        \* history: participant id -> the candidate it was converted from (0: none)
  since,         \* history: who else wrote the candidates of the upload's event
                 \* since its DELETE ran ("upload", "other")
  uold,          \* history: the event's candidates when the DELETE ran
  sseClients,    \* the responses of the open GET /events requests
  received,      \* what the latest handler that wrote to a client's response
                 \* wrote to it, in order (earlier writes are not kept)
  stalled,       \* the open responses whose client has stopped reading, or
                 \* whose socket has failed and not yet emitted 'close'
  stat,          \* the GET /api/events/:id/stats request: where it is and
                 \* the counts its callbacks hold
  \* the registration page of the browser (one page, open on an event)
  page,                   \* how far its DOMContentLoaded handler has got
  pageParticipants,       \* let participants = []: ids, in the order of the array
  loadingParticipants,    \* the loadParticipants query of the page, in flight
  inserted,               \* INSERT notifications on their way to the page
  preregisteredParticipants, \* let preregisteredParticipants = []
  searchInput,            \* value of #preregSearchInput, lowered and trimmed
  searchTimeout,          \* the query the debounce timer will run ("": no timer)
  searching,              \* the search requests awaiting their response
  loadingPreregistered,   \* the loadPreregisteredParticipants queries awaiting
                          \* their response
  changed,                \* pre_registered_participants notifications on their way
  rendered                \* what #preregisterBody shows

dbvars == <<prereg, participants, nextPreId, nextPartId>>
uvars == <<upc, uev, ufile, uqueue, unew>>
cvars == <<cpc, cev, cid, carea, cpreReg, cinserted>>
hvars == <<origin, since, uold>>
svars == <<sseClients, received, stalled>>
bvars == <<page, pageParticipants, loadingParticipants, inserted,
           preregisteredParticipants, searchInput, searchTimeout, searching,
           loadingPreregistered, changed, rendered>>
vars == <<prereg, participants, nextPreId, nextPartId,
          upc, uev, ufile, uqueue, unew,
          cpc, cev, cid, carea, cpreReg, cinserted, origin, since, uold,
          sseClients, received, stalled, stat,
          page, pageParticipants, loadingParticipants, inserted,
          preregisteredParticipants, searchInput, searchTimeout, searching,
          loadingPreregistered, changed, rendered>>

NoRow == [event_id |-> 0, identifier_type |-> Null, identifier_value |-> Null,
          full_name |-> Null, email |-> Null, dni |-> Null, area |-> Null,
          raw_data |-> RowAna, is_registered |-> 0, registered_participant_id |-> 0]

NoParticipant == [event_id |-> 0, full_name |-> Null, email |-> Null, area |-> Null]

\* no stats request in flight
NoStats == [pc |-> "idle", id |-> 1, total |-> 0, preTotal |-> 0]

\* a query of the page that is not in flight
NoRequest == [by |-> "nobody", state |-> "none", data |-> << >>]

\* #preregisterBody before anything has been rendered into it
RenderedNothing == [query |-> "", rows |-> << >>]

Init ==
  /\ prereg = [k \in {} |-> NoRow]
  /\ participants = [k \in {} |-> NoParticipant]
  /\ origin = [k \in {} |-> 0]
  /\ nextPreId = 1
  /\ nextPartId = 1
  /\ upc = [u \in Uploads |-> "idle"]
  /\ uev = [u \in Uploads |-> 1]
  /\ ufile = [u \in Uploads |-> << >>]
  /\ uqueue = [u \in Uploads |-> << >>]
  /\ unew = [u \in Uploads |-> << >>]
  /\ cpc = [c \in Converts |-> "idle"]
  /\ cev = [c \in Converts |-> 1]
  /\ cid = [c \in Converts |-> 0]
  /\ carea = [c \in Converts |-> Null]
  /\ cpreReg = [c \in Converts |-> NoRow]
  /\ cinserted = [c \in Converts |-> 0]
  /\ since = [u \in Uploads |-> {}]
  /\ uold = [u \in Uploads |-> << >>]
  /\ sseClients = {}
  /\ received = [s \in Clients |-> << >>]
  /\ stalled = {}
  /\ stat = NoStats
  /\ page = "closed"
  /\ pageParticipants = << >>
  /\ loadingParticipants = NoRequest
  /\ inserted = {}
  /\ preregisteredParticipants = << >>
  /\ searchInput = ""
  /\ searchTimeout = ""
  /\ searching = {}
  /\ loadingPreregistered = {}
  /\ changed = 0
  /\ rendered = RenderedNothing

\* ------------------------------------------------------- SQL statements
\* ids of the candidates of event e
PreregOfEvent(p, e) == {k \in DOMAIN p : p[k].event_id = e}

\* a DELETE that would spare the converted candidates:
\* DELETE ... WHERE event_id = ? AND is_registered = 0
DeleteUnconvertedByEvent(p, e) ==
  [k \in {j \in DOMAIN p : ~(p[j].event_id = e /\ p[j].is_registered = 0)} |-> p[k]]

\* a DELETE that would forget its WHERE clause:
\* DELETE FROM pre_registered_participants
DeleteEveryPrereg(p, e) == [k \in {} |-> NoRow]

\* DELETE FROM pre_registered_participants WHERE event_id = ?
DeletePreregByEvent(p, e) == [k \in DOMAIN p \ PreregOfEvent(p, e) |-> p[k]]

\* INSERT INTO pre_registered_participants (...) VALUES (...), id from AUTOINCREMENT
InsertPrereg(p, id, row) == [k \in DOMAIN p \cup {id} |-> IF k = id THEN row ELSE p[k]]

\* a SELECT that would look the candidate up by id alone:
\* SELECT * ... WHERE id = ? AND is_registered = 0
SelectUnregisteredById(p, id, e) ==
  {k \in DOMAIN p : k = id /\ p[k].is_registered = 0}

\* SELECT * ... WHERE id = ? AND event_id = ? AND is_registered = 0
SelectUnregistered(p, id, e) ==
  {k \in DOMAIN p : k = id /\ p[k].event_id = e /\ p[k].is_registered = 0}

\* an UPDATE that would flip the flag: SET is_registered = 1 - is_registered
ToggleRegistered(p, id, partId) ==
  [k \in DOMAIN p |-> IF k = id
                      THEN [p[k] EXCEPT !.is_registered = 1 - p[k].is_registered,
                                        !.registered_participant_id = partId]
                      ELSE p[k]]

\* an UPDATE that would lack its WHERE clause
MarkEveryRegistered(p, id, partId) ==
  [k \in DOMAIN p |-> [p[k] EXCEPT !.is_registered = 1, !.registered_participant_id = partId]]

\* UPDATE pre_registered_participants SET is_registered = 1,
\*   registered_participant_id = ? WHERE id = ?
MarkRegistered(p, id, partId) ==
  [k \in DOMAIN p |-> IF k = id
                      THEN [p[k] EXCEPT !.is_registered = 1, !.registered_participant_id = partId]
                      ELSE p[k]]

\* INSERT INTO participants (event_id, full_name, email, area) VALUES (?, ?, ?, ?)
InsertParticipant(t, id, row) == [k \in DOMAIN t \cup {id} |-> IF k = id THEN row ELSE t[k]]

\* DELETE FROM participants WHERE id = ? AND event_id = ?
\* (foreign keys are not enforced: no PRAGMA foreign_keys, so the candidates'
\* registered_participant_id is left as it is)
DeleteParticipantRow(t, id, e) ==
  [k \in {j \in DOMAIN t : ~(j = id /\ t[j].event_id = e)} |-> t[k]]

\* a || b in JS, on values that are a non-empty string or null/undefined
Or(a, b) == IF a # Null THEN a ELSE b

\* `${preReg.identifier_value}@temp.com`
\* a placeholder that would not carry the identifier
FixedTempEmail(v) == "unknown@temp.com"

TempEmail(v) == v \o "@temp.com"

\* ---------------------------------------------------------------- SSE
\* the data objects handed to broadcast(), all of one shape: the fields a
\* message does not have are 0 / NoParticipant
Message(type, eventId, id, count, participant) ==
  [type |-> type, eventId |-> eventId, id |-> id, count |-> count, participant |-> participant]

\* { type: 'connected' }
Connected == Message("connected", 0, 0, 0, NoParticipant)

\* a broadcast that would write to one of the clients only
DeliverToOne(rcv, clients, batch) ==
  [s \in Clients |-> IF clients # {} /\ s = (CHOOSE x \in clients : TRUE)
                     THEN batch ELSE rcv[s]]

\* client.write(`data: ...`): the write does not wait; for a client that
\* has stopped reading, or whose socket has failed, the data stays in the
\* buffer of the response and reaches nobody; write returns in any case
ClientWrite(s, got, batch) == IF s \in stalled THEN got ELSE batch

\* a forEach that a write to a stalled client would stop: no client is
\* written to once one of them has stalled
DeliverUnlessStalled(rcv, clients, batch) ==
  [s \in Clients |-> IF s \in clients /\ clients \cap stalled = {}
                     THEN batch ELSE rcv[s]]

\* function broadcast(data): sseClients.forEach(client => client.write(...)),
\* for the data objects a handler broadcasts one after the other
Deliver(rcv, clients, batch) ==
  [s \in Clients |-> IF s \in clients THEN ClientWrite(s, rcv[s], batch) ELSE rcv[s]]

\* ------------------------------------------------------------- upload
\* analysis.mappings.x ? row[analysis.mappings.x] : null
Mapped(m, row) == IF m # Null THEN Cell(row, m) ELSE Null

\* the row the data.forEach callback hands to stmt.run
CandidateOf(e, analysis, row) ==
  [event_id |-> e,
   identifier_type |-> analysis.identifier_type,
   identifier_value |-> Cell(row, analysis.identifier_column),
   full_name |-> Mapped(analysis.mappings.full_name, row),
   email |-> Mapped(analysis.mappings.email, row),
   dni |-> Mapped(analysis.mappings.dni, row),
   area |-> Mapped(analysis.mappings.area, row),
   raw_data |-> row,
   is_registered |-> 0,
   registered_participant_id |-> 0]

\* if (!identifierValue) return;  -- rows without identifier are skipped
HasIdentifier(analysis, row) == Cell(row, analysis.identifier_column) # Null

\* the stmt.run calls data.forEach queues, in order
RECURSIVE QueuedInserts(_, _, _)
QueuedInserts(e, analysis, data) ==
  IF data = << >> THEN << >>
  ELSE IF HasIdentifier(analysis, Head(data))
       THEN <<CandidateOf(e, analysis, Head(data))>> \o QueuedInserts(e, analysis, Tail(data))
       ELSE QueuedInserts(e, analysis, Tail(data))

\* what a row of the table says about the uploaded candidate (no id, no
\* conversion state)
Content(r) == [r EXCEPT !.is_registered = 0, !.registered_participant_id = 0]

RECURSIVE IdsAscending(_)
IdsAscending(S) ==
  IF S = {} THEN << >>
  ELSE LET m == CHOOSE x \in S : \A y \in S : x <= y
       IN <<m>> \o IdsAscending(S \ {m})

\* the candidates of event e, by ascending id, as uploaded
ContentOfEvent(p, e) ==
  LET ids == IdsAscending(PreregOfEvent(p, e))
  IN [i \in 1..Len(ids) |-> Content(p[ids[i]])]

\* an upload that has answered 200 and whose history is still kept
Finished(u) == upc[u] = "idle" /\ unew[u] # << >>

\* History kept per upload u, after a write of kind k ("delete" and "insert"
\* of another upload, "other" for a convert or a clear) by writer w to the
\* candidates of event e.  While u is replacing, since[u] collects the kinds.
\* Once u has answered, its history is kept as long as the event's candidates
\* are what u left, or what u and an upload that overlapped it left.
SinceAfter(u, e, w, k) ==
  IF u = w \/ uev[u] # e THEN since[u]
  ELSE IF upc[u] = "insert"
       THEN (IF k = "other" \/ "other" \in since[u] THEN {"other"} ELSE {"upload"})
       ELSE IF Finished(u) /\ k = "insert" THEN {"upload"}
       ELSE {}

Forgotten(u, e, w, k) ==
  u # w /\ uev[u] = e /\ Finished(u) /\ k # "insert"

\* rows the uploads in flight have queued and not yet inserted
Reserved ==
  LET RECURSIVE Sum(_)
      Sum(S) == IF S = {} THEN 0
                ELSE LET u == CHOOSE x \in S : TRUE
                     IN Len(uqueue[u]) + Sum(S \ {u})
  IN Sum(Uploads)

\* POST /api/events/:eventId/upload-preregister, up to the await of the
\* oracle call: XLSX.readFile, sheet_to_json; an empty sheet throws 'Excel
\* file is empty' and the catch block answers 500
UploadRequest(u, e, f) ==
  /\ upc[u] = "idle"
  /\ since' = [since EXCEPT ![u] = {}]
  /\ unew' = [unew EXCEPT ![u] = << >>]
  /\ IF f = << >>
     THEN /\ uev' = [uev EXCEPT ![u] = 1]
          /\ UNCHANGED <<upc, ufile>>
     ELSE /\ uev' = [uev EXCEPT ![u] = e]
          /\ ufile' = [ufile EXCEPT ![u] = f]
          /\ upc' = [upc EXCEPT ![u] = "ai"]
  /\ UNCHANGED <<stat, bvars, dbvars, uqueue, cvars, origin, uold, svars>>

\* the oracle call rejects, or its text does not parse: the catch block
\* answers 500
UploadOracleFails(u, r) ==
  /\ upc[u] = "ai"
  /\ r.kind # "json"
  /\ upc' = [upc EXCEPT ![u] = "idle"]
  /\ uev' = [uev EXCEPT ![u] = 1]
  /\ ufile' = [ufile EXCEPT ![u] = << >>]
  /\ UNCHANGED <<stat, bvars, dbvars, uqueue, unew, cvars, hvars, svars>>

\* the oracle's reply parses: the handler issues the DELETE, the DELETE runs
\* and its callback queues one stmt.run per row with identifier (between the
\* reply and the DELETE the handler touches nothing shared)
UploadDelete(u, r) ==
  /\ upc[u] = "ai"
  /\ r.kind = "json"
  /\ nextPreId - 1 + Reserved + Len(QueuedInserts(uev[u], r, ufile[u])) <= MaxPreId
  /\ prereg' = DeletePreregByEvent(prereg, uev[u])
  /\ uqueue' = [uqueue EXCEPT ![u] = QueuedInserts(uev[u], r, ufile[u])]
  /\ upc' = [upc EXCEPT ![u] = "insert"]
  /\ ufile' = [ufile EXCEPT ![u] = << >>]
  /\ uold' = [uold EXCEPT ![u] = ContentOfEvent(prereg, uev[u])]
  /\ unew' = [v \in Uploads |->
                IF v = u THEN QueuedInserts(uev[u], r, ufile[u])
                ELSE IF Forgotten(v, uev[u], u, "delete") THEN << >> ELSE unew[v]]
  /\ since' = [v \in Uploads |->
                IF v = u THEN {} ELSE SinceAfter(v, uev[u], u, "delete")]
  /\ UNCHANGED <<stat, bvars, participants, nextPreId, nextPartId, uev, cvars, origin, svars>>

\* one queued stmt.run runs
UploadInsert(u) ==
  /\ upc[u] = "insert"
  /\ uqueue[u] # << >>
  /\ prereg' = InsertPrereg(prereg, nextPreId, Head(uqueue[u]))
  /\ nextPreId' = nextPreId + 1
  /\ uqueue' = [uqueue EXCEPT ![u] = Tail(uqueue[u])]
  /\ since' = [v \in Uploads |-> SinceAfter(v, uev[u], u, "insert")]
  /\ UNCHANGED <<stat, bvars, participants, nextPartId, upc, uev, ufile, unew, cvars, origin, uold, svars>>

\* { type: 'preregister_uploaded', count: insertedCount, eventId }
PreregisterUploaded(u) ==
  Message("preregister_uploaded", uev[u], 0, Len(unew[u]), NoParticipant)

\* a stmt.finalize callback that would undo the replace and answer an error
\* when a client of the broadcast has stalled
UploadFinalizeUndoing(u) ==
  /\ upc[u] = "insert"
  /\ uqueue[u] = << >>
  /\ received' = Deliver(received, sseClients, <<PreregisterUploaded(u)>>)
  /\ upc' = [upc EXCEPT ![u] = "idle"]
  /\ uold' = [uold EXCEPT ![u] = << >>]
  /\ uev' = [uev EXCEPT ![u] = 1]
  /\ since' = [since EXCEPT ![u] = {}]
  /\ IF stalled \cap sseClients # {}
     THEN /\ prereg' = DeletePreregByEvent(prereg, uev[u])
          /\ unew' = [unew EXCEPT ![u] = << >>]
     ELSE UNCHANGED <<prereg, unew>>
  /\ UNCHANGED <<stat, bvars, participants, nextPreId, nextPartId, ufile, uqueue,
                 cvars, origin, sseClients, stalled>>

\* stmt.finalize callback: broadcast, res.json({count: insertedCount, ...})
UploadFinalize(u) ==
  /\ upc[u] = "insert"
  /\ uqueue[u] = << >>
  /\ received' = Deliver(received, sseClients, <<PreregisterUploaded(u)>>)
  /\ upc' = [upc EXCEPT ![u] = "idle"]
  /\ uold' = [uold EXCEPT ![u] = << >>]
  /\ IF unew[u] = << >>
     THEN /\ uev' = [uev EXCEPT ![u] = 1]
          /\ since' = [since EXCEPT ![u] = {}]
     ELSE UNCHANGED <<uev, since>>
  /\ UNCHANGED <<stat, bvars, dbvars, ufile, uqueue, unew, cvars, origin, sseClients, stalled>>

\* ------------------------------------------------------------ convert
\* participants rows the converts in flight may still insert
ConvertsBeforeInsert ==
  Cardinality({c \in Converts : cpc[c] \in {"insert", "page-insert"}})

\* if (!preReg) return res.status(404).json({ error: ... }): what the db.get
\* callback answers when the SELECT found no row (status 0: it answers
\* nothing and goes on to the INSERT)
NotFoundOrRegistered == [status |-> 404, error |-> "Participant not found or already registered"]
GoesOn == [status |-> 0, error |-> Null]

ConvertRefusal(p, id, e) ==
  IF SelectUnregistered(p, id, e) = {} THEN NotFoundOrRegistered ELSE GoesOn

\* POST /api/events/:eventId/preregistered/:id/register: the db.get of the
\* candidate and its callback (404 'Participant not found or already
\* registered', or the INSERT is issued)
ConvertSelect(c, e, id, area) ==
  /\ cpc[c] = "idle"
  /\ nextPartId - 1 + ConvertsBeforeInsert + 1 <= MaxPartId
  /\ IF ConvertRefusal(prereg, id, e).status = 404
     THEN UNCHANGED <<cpc, cev, cid, carea, cpreReg>>
     ELSE /\ cev' = [cev EXCEPT ![c] = e]
          /\ cid' = [cid EXCEPT ![c] = id]
          /\ carea' = [carea EXCEPT ![c] = area]
          /\ cpreReg' = [cpreReg EXCEPT ![c] = prereg[id]]
          /\ cpc' = [cpc EXCEPT ![c] = "insert"]
  /\ UNCHANGED <<stat, bvars, dbvars, upc, uev, ufile, uqueue, unew, cinserted, hvars, svars>>

\* values of the INSERT that would not look at req.body.area
ParticipantOfCandidateArea(e, preReg, area) ==
  [event_id |-> e,
   full_name |-> Or(preReg.full_name, preReg.identifier_value),
   email |-> Or(preReg.email, TempEmail(preReg.identifier_value)),
   area |-> Or(preReg.area, "Not specified")]

\* finalArea, finalEmail and the values of the INSERT INTO participants
ParticipantOf(e, preReg, area) ==
  [event_id |-> e,
   full_name |-> Or(preReg.full_name, preReg.identifier_value),
   email |-> Or(preReg.email, TempEmail(preReg.identifier_value)),
   area |-> Or(area, Or(preReg.area, "Not specified"))]

\* the INSERT INTO participants runs; insertedId = this.lastID
ConvertInsert(c) ==
  /\ cpc[c] = "insert"
  /\ participants' = InsertParticipant(participants, nextPartId,
                                       ParticipantOf(cev[c], cpreReg[c], carea[c]))
  /\ origin' = [k \in DOMAIN origin \cup {nextPartId} |->
                  IF k = nextPartId THEN cid[c] ELSE origin[k]]
  /\ cinserted' = [cinserted EXCEPT ![c] = nextPartId]
  /\ nextPartId' = nextPartId + 1
  /\ carea' = [carea EXCEPT ![c] = Null]
  /\ cpreReg' = [cpreReg EXCEPT ![c] = NoRow]
  /\ cpc' = [cpc EXCEPT ![c] = "update"]
  /\ UNCHANGED <<stat, bvars, prereg, nextPreId, uvars, cev, cid, since, uold, svars>>

\* db.get('SELECT * FROM participants WHERE id = ?', [insertedId]): the row
\* with its id, undefined when the row has been deleted meanwhile
\* { type: 'new_participant', participant, eventId }
NewParticipant(t, id, e) ==
  IF id \in DOMAIN t THEN Message("new_participant", e, id, 0, t[id])
  ELSE Message("new_participant", e, 0, 0, NoParticipant)

\* { type: 'preregistered_updated', preRegId, isRegistered: true, eventId }
PreregisteredUpdated(preRegId, e) ==
  Message("preregistered_updated", e, preRegId, 0, NoParticipant)

\* the UPDATE ... SET is_registered = 1 runs; its callback reads the new
\* participant back, broadcasts twice and answers 201
ConvertUpdate(c) ==
  /\ cpc[c] = "update"
  /\ received' = Deliver(received, sseClients,
                         <<NewParticipant(participants, cinserted[c], cev[c]),
                           PreregisteredUpdated(cid[c], cev[c])>>)
  /\ prereg' = MarkRegistered(prereg, cid[c], cinserted[c])
  /\ since' = [v \in Uploads |->
                IF cid[c] \in DOMAIN prereg
                THEN SinceAfter(v, prereg[cid[c]].event_id, c, "other") ELSE since[v]]
  /\ unew' = [v \in Uploads |->
                IF cid[c] \in DOMAIN prereg
                   /\ Forgotten(v, prereg[cid[c]].event_id, c, "other")
                THEN << >> ELSE unew[v]]
  /\ cinserted' = [cinserted EXCEPT ![c] = 0]
  /\ cid' = [cid EXCEPT ![c] = 0]
  /\ cev' = [cev EXCEPT ![c] = 1]
  /\ cpc' = [cpc EXCEPT ![c] = "idle"]
  /\ UNCHANGED <<stat, bvars, participants, nextPreId, nextPartId, upc, uev, ufile, uqueue,
                 carea, cpreReg, origin, uold, sseClients, stalled>>

\* ------------------------------------------------- the other handlers
\* { type: 'preregister_cleared', eventId }
PreregisterCleared(e) == Message("preregister_cleared", e, 0, 0, NoParticipant)

\* a clear that would cascade to the participants its candidates link to
ClearCascading(e) ==
  LET linked == {prereg[k].registered_participant_id : k \in PreregOfEvent(prereg, e)}
  IN /\ prereg' = DeletePreregByEvent(prereg, e)
     /\ participants' = [k \in DOMAIN participants \ linked |-> participants[k]]
     /\ origin' = [k \in DOMAIN participants' |-> origin[k]]
     /\ received' = Deliver(received, sseClients, <<PreregisterCleared(e)>>)
     /\ since' = [v \in Uploads |-> SinceAfter(v, e, "clear", "other")]
     /\ unew' = [v \in Uploads |->
                   IF Forgotten(v, e, "clear", "other") THEN << >> ELSE unew[v]]
     /\ UNCHANGED <<stat, bvars, nextPreId, nextPartId, upc, uev, ufile, uqueue, cvars, uold, sseClients, stalled>>

\* DELETE /api/events/:eventId/preregistered
ClearPreregistered(e) ==
  /\ prereg' = DeletePreregByEvent(prereg, e)
  /\ received' = Deliver(received, sseClients, <<PreregisterCleared(e)>>)
  /\ since' = [v \in Uploads |-> SinceAfter(v, e, "clear", "other")]
  /\ unew' = [v \in Uploads |->
                IF Forgotten(v, e, "clear", "other") THEN << >> ELSE unew[v]]
  /\ UNCHANGED <<stat, bvars, participants, nextPreId, nextPartId, upc, uev, ufile, uqueue,
                 cvars, origin, uold, sseClients, stalled>>

\* { type: 'participant_deleted', id, eventId }
ParticipantDeleted(id, e) == Message("participant_deleted", e, id, 0, NoParticipant)

\* DELETE /api/events/:eventId/participants/:id, for a row that exists
\* (this.changes > 0; otherwise 404 and nothing happens)
DeleteParticipant(e, id) ==
  /\ id \in DOMAIN participants
  /\ participants[id].event_id = e
  /\ participants' = DeleteParticipantRow(participants, id, e)
  /\ origin' = [k \in DOMAIN participants' |-> origin[k]]
  /\ received' = Deliver(received, sseClients, <<ParticipantDeleted(id, e)>>)
  /\ UNCHANGED <<stat, bvars, prereg, nextPreId, nextPartId, uvars, cvars, since, uold, sseClients, stalled>>

\* POST /api/events/:eventId/participants (manual registration), with a
\* body that passes the validation
QuickAdd == [full_name |-> "Dan", email |-> "dan@x.org", area |-> "Ops"]

RegisterParticipant(e) ==
  /\ nextPartId - 1 + ConvertsBeforeInsert + 1 <= MaxPartId
  /\ participants' = InsertParticipant(participants, nextPartId,
                        [event_id |-> e, full_name |-> QuickAdd.full_name,
                         email |-> QuickAdd.email, area |-> QuickAdd.area])
  /\ origin' = [k \in DOMAIN origin \cup {nextPartId} |->
                  IF k = nextPartId THEN 0 ELSE origin[k]]
  /\ nextPartId' = nextPartId + 1
  /\ received' = Deliver(received, sseClients,
                         <<NewParticipant(participants', nextPartId, e)>>)
  /\ UNCHANGED <<stat, bvars, prereg, nextPreId, uvars, cvars, since, uold, sseClients, stalled>>

\* GET /events: the response joins sseClients and gets { type: 'connected' }
Subscribe(s) ==
  /\ s \notin sseClients
  /\ sseClients' = sseClients \cup {s}
  /\ received' = [received EXCEPT ![s] = <<Connected>>]
  /\ UNCHANGED <<stat, bvars, dbvars, uvars, cvars, hvars, stalled>>

\* a close handler that would leave the response in sseClients
DisconnectKept(s) ==
  /\ s \in sseClients
  /\ received[s] # << >>
  /\ received' = [received EXCEPT ![s] = << >>]
  /\ stalled' = stalled \ {s}
  /\ UNCHANGED <<stat, bvars, dbvars, uvars, cvars, hvars, sseClients>>

\* the browser behind an open response stops reading, or its connection
\* fails and 'close' has not been emitted yet
Stall(s) ==
  /\ s \in sseClients \ stalled
  /\ stalled' = stalled \cup {s}
  /\ UNCHANGED <<stat, bvars, dbvars, uvars, cvars, hvars, sseClients, received>>

\* req.on('close'): the response leaves sseClients (and what was written
\* to it is gone with it)
Disconnect(s) ==
  /\ s \in sseClients
  /\ sseClients' = sseClients \ {s}
  /\ received' = [received EXCEPT ![s] = << >>]
  /\ stalled' = stalled \ {s}
  /\ UNCHANGED <<stat, bvars, dbvars, uvars, cvars, hvars>>

\* ORDER BY full_name ASC of SQLite: NULL first, then BINARY collation
NameRank(n) ==
  CASE n = Null -> 0
    [] n = "Ana" -> 1
    [] n = "Bob" -> 2
    [] n = "Cid" -> 3
    [] OTHER -> 4

\* row a sorts before row b under ORDER BY is_registered ASC, full_name ASC
\* (ties in the order of the rowid)
ListBefore(p, a, b) ==
  \/ p[a].is_registered < p[b].is_registered
  \/ /\ p[a].is_registered = p[b].is_registered
     /\ \/ NameRank(p[a].full_name) < NameRank(p[b].full_name)
        \/ NameRank(p[a].full_name) = NameRank(p[b].full_name) /\ a <= b

RECURSIVE ListOrder(_, _)
ListOrder(p, S) ==
  IF S = {} THEN << >>
  ELSE LET m == CHOOSE x \in S : \A y \in S : ListBefore(p, x, y)
       IN <<m>> \o ListOrder(p, S \ {m})

\* SELECT * FROM pre_registered_participants WHERE event_id = ?
\*   ORDER BY is_registered ASC, full_name ASC
SelectPreregistered(p, e) ==
  LET ids == ListOrder(p, PreregOfEvent(p, e))
  IN [i \in 1..Len(ids) |-> [id |-> ids[i], row |-> p[ids[i]]]]

\* GET /api/events/:eventId/preregistered
ListPreregistered(e) ==
  /\ UNCHANGED vars

\* ------------------------------------------------------------- search
\* req.query.q of a search request (never empty: an empty q answers 400)
Queries == {"an", "AN", "1", "_", "zz"}

\* the characters of the strings that occur in candidates and queries
Chars(str) ==
  CASE str = "Ana" -> <<"A", "n", "a">>
    [] str = "Bob" -> <<"B", "o", "b">>
    [] str = "Cid" -> <<"C", "i", "d">>
    [] str = "ana@x.org" -> <<"a", "n", "a", "@", "x", ".", "o", "r", "g">>
    [] str = "cid@x.org" -> <<"c", "i", "d", "@", "x", ".", "o", "r", "g">>
    [] str = "11" -> <<"1", "1">>
    [] str = "22" -> <<"2", "2">>
    [] str = "an" -> <<"a", "n">>
    [] str = "AN" -> <<"A", "N">>
    [] str = "1" -> <<"1">>
    [] str = "2" -> <<"2">>
    [] str = "_" -> <<"_">>
    [] str = "zz" -> <<"z", "z">>
    [] OTHER -> << >>

\* SQLite's LIKE folds the case of ASCII letters
Lower(ch) ==
  CASE ch = "A" -> "a"
    [] ch = "B" -> "b"
    [] ch = "C" -> "c"
    [] ch = "N" -> "n"
    [] OTHER -> ch

\* text LIKE pattern, on characters: % stands for any run of characters,
\* _ for any one character (the statement has no ESCAPE)
RECURSIVE Like(_, _)
Like(txt, pat) ==
  IF pat = << >> THEN txt = << >>
  ELSE IF Head(pat) = "%"
       THEN \/ Like(txt, Tail(pat))
            \/ txt # << >> /\ Like(Tail(txt), pat)
       ELSE /\ txt # << >>
            /\ \/ Head(pat) = "_"
               \/ Lower(Head(pat)) = Lower(Head(txt))
            /\ Like(Tail(txt), Tail(pat))

\* const searchPattern = `%${query}%`
SearchPattern(q) == <<"%">> \o Chars(q) \o <<"%">>

\* column LIKE ?  (NULL LIKE ? is not true)
ColumnLike(v, q) == v # Null /\ Like(Chars(v), SearchPattern(q))

\* a WHERE clause that would lack AND is_registered = 0
SearchMatchesConverted(r, e, q) ==
  /\ r.event_id = e
  /\ \/ ColumnLike(r.full_name, q)
     \/ ColumnLike(r.email, q)
     \/ ColumnLike(r.dni, q)
     \/ ColumnLike(r.identifier_value, q)

\* the WHERE clause of the search
SearchMatches(r, e, q) ==
  /\ r.event_id = e
  /\ \/ ColumnLike(r.full_name, q)
     \/ ColumnLike(r.email, q)
     \/ ColumnLike(r.dni, q)
     \/ ColumnLike(r.identifier_value, q)
  /\ r.is_registered = 0

\* LIMIT 50
SearchLimit == 50

\* row a sorts before row b under ORDER BY full_name ASC
SearchBefore(p, a, b) ==
  \/ NameRank(p[a].full_name) < NameRank(p[b].full_name)
  \/ NameRank(p[a].full_name) = NameRank(p[b].full_name) /\ a <= b

RECURSIVE SearchOrder(_, _)
SearchOrder(p, S) ==
  IF S = {} THEN << >>
  ELSE LET m == CHOOSE x \in S : \A y \in S : SearchBefore(p, x, y)
       IN <<m>> \o SearchOrder(p, S \ {m})

\* SELECT * FROM pre_registered_participants WHERE ... ORDER BY full_name ASC
\*   LIMIT 50
SearchPreregisteredRows(p, e, q) ==
  LET ids == SearchOrder(p, {k \in DOMAIN p : SearchMatches(p[k], e, q)})
      n == IF Len(ids) <= SearchLimit THEN Len(ids) ELSE SearchLimit
  IN [i \in 1..n |-> [id |-> ids[i], row |-> p[ids[i]]]]

\* GET /api/events/:eventId/preregistered/search?q=...
SearchPreregistered(e, q) ==
  /\ UNCHANGED vars

\* renderPreregistered() of the browser, on the list it loaded: without a
\* filtered list it shows preregisteredParticipants.filter(p => !p.is_registered)
RenderPreregistered(rows) == SelectSeq(rows, LAMBDA x : x.row.is_registered = 0)

\* -------------------------------------------------------------- stats
\* SELECT COUNT(*) as count FROM participants WHERE event_id = ?
CountParticipants(t, e) == Cardinality({k \in DOMAIN t : t[k].event_id = e})

\* SELECT COUNT(*) as total FROM pre_registered_participants WHERE event_id = ?
CountPreregistered(p, e) == Cardinality(PreregOfEvent(p, e))

\* SELECT COUNT(*) as registered FROM pre_registered_participants
\*   WHERE event_id = ? AND is_registered = 1
CountRegistered(p, e) ==
  Cardinality({k \in PreregOfEvent(p, e) : p[k].is_registered = 1})

\* GET /api/events/:id/stats: the first db.get runs (total.count)
StatsTotal(e) ==
  /\ stat.pc = "idle"
  /\ stat' = [pc |-> "byArea", id |-> e,
              total |-> CountParticipants(participants, e), preTotal |-> 0]
  /\ UNCHANGED <<dbvars, uvars, cvars, hvars, svars, bvars>>

\* the db.all of the counts by area runs (byArea is not kept here)
StatsByArea ==
  /\ stat.pc = "byArea"
  /\ stat' = [stat EXCEPT !.pc = "preTotal"]
  /\ UNCHANGED <<dbvars, uvars, cvars, hvars, svars, bvars>>

\* the db.get of the candidates of the event runs (preTotal.total)
StatsPreTotal ==
  /\ stat.pc = "preTotal"
  /\ stat' = [stat EXCEPT !.pc = "preRegistered",
                          !.preTotal = CountPreregistered(prereg, stat.id)]
  /\ UNCHANGED <<dbvars, uvars, cvars, hvars, svars, bvars>>

\* what res.json answers once the last db.get has run on table p
StatsResponse(st, p) ==
  [total |-> st.total,
   preRegistered |-> [total |-> st.preTotal,
                      registered |-> CountRegistered(p, st.id),
                      pending |-> st.preTotal - CountRegistered(p, st.id)]]

\* the db.get of the converted candidates runs and its callback answers
StatsPreRegistered ==
  /\ stat.pc = "preRegistered"
  /\ stat' = NoStats
  /\ UNCHANGED <<dbvars, uvars, cvars, hvars, svars, bvars>>

\* ------------------------------------------- the registration page
\* currentEventId = urlParams.get('eventId'): the event the page is open on
currentEventId == 1

\* a query the page has sent and the store has not run yet, and a query the
\* store has run, whose response is on its way; by: "DOMContentLoaded" for
\* the queries the DOMContentLoaded handler awaits before it goes on,
\* "later" for the others
Sent(by) == [by |-> by, state |-> "sent", data |-> << >>]
Answered(by, data) == [by |-> by, state |-> "answered", data |-> data]

RECURSIVE IdsDescending(_)
IdsDescending(S) ==
  IF S = {} THEN << >>
  ELSE LET m == CHOOSE x \in S : \A y \in S : x >= y
       IN <<m>> \o IdsDescending(S \ {m})

\* supabase.from('participants').select('*').eq('event_id', currentEventId)
\*   .order('registered_at', { ascending: false })
\* (registered_at is NOW() of the insert: the later id is the later row)
SelectParticipants(t, e) == IdsDescending({k \in DOMAIN t : t[k].event_id = e})

\* the postgres_changes INSERT notifications of table participants that
\* the channel of the page gets for a new row: filter event_id=eq.currentEventId
NotifiedInsert(id, e) ==
  IF page # "closed" /\ e = currentEventId THEN inserted \cup {id} ELSE inserted

\* DOMContentLoaded: initializeRealtime(), then loadParticipants() sends its
\* query (auth and event details are taken to succeed)
PageOpen ==
  /\ page = "closed"
  /\ page' = "participants"
  /\ loadingParticipants' = Sent("DOMContentLoaded")
  /\ UNCHANGED <<dbvars, uvars, cvars, hvars, svars, stat, pageParticipants, inserted,
                 preregisteredParticipants, searchInput, searchTimeout, searching,
                 loadingPreregistered, changed, rendered>>

\* the store runs the query of loadParticipants
LoadParticipantsQuery ==
  /\ loadingParticipants.state = "sent"
  /\ loadingParticipants' = Answered(loadingParticipants.by,
                                      SelectParticipants(participants, currentEventId))
  /\ UNCHANGED <<dbvars, uvars, cvars, hvars, svars, stat, page, pageParticipants, inserted,
                 preregisteredParticipants, searchInput, searchTimeout, searching,
                 loadingPreregistered, changed, rendered>>

\* loadParticipants gets its response: participants = data || []; the
\* DOMContentLoaded handler goes on to loadPreregisteredParticipants(),
\* which sends its query
LoadParticipantsResponse ==
  /\ loadingParticipants.state = "answered"
  /\ pageParticipants' = loadingParticipants.data
  /\ loadingParticipants' = NoRequest
  /\ page' = "preregistered"
  /\ loadingPreregistered' = loadingPreregistered \cup {Sent("DOMContentLoaded")}
  /\ UNCHANGED <<dbvars, uvars, cvars, hvars, svars, stat, inserted,
                 preregisteredParticipants, searchInput, searchTimeout, searching,
                 changed, rendered>>

\* the channel delivers an INSERT notification of table participants:
\* participants.unshift(payload.new)
ParticipantInserted(id) ==
  /\ id \in inserted
  /\ inserted' = inserted \ {id}
  /\ pageParticipants' = <<id>> \o pageParticipants
  /\ UNCHANGED <<dbvars, uvars, cvars, hvars, svars, stat, page, loadingParticipants,
                 preregisteredParticipants, searchInput, searchTimeout, searching,
                 loadingPreregistered, changed, rendered>>

\* the submit handler of #quickAddForm, on a page of event e (this page when
\* e is currentEventId, the page of another desk otherwise):
\* supabase.from('participants').insert([participantData])
QuickAddSubmit(e) ==
  /\ nextPartId - 1 + ConvertsBeforeInsert + 1 <= MaxPartId
  /\ participants' = InsertParticipant(participants, nextPartId,
                        [event_id |-> e, full_name |-> QuickAdd.full_name,
                         email |-> QuickAdd.email, area |-> QuickAdd.area])
  /\ origin' = [k \in DOMAIN origin \cup {nextPartId} |->
                  IF k = nextPartId THEN 0 ELSE origin[k]]
  /\ nextPartId' = nextPartId + 1
  /\ inserted' = NotifiedInsert(nextPartId, e)
  /\ UNCHANGED <<prereg, nextPreId, uvars, cvars, since, uold, svars, stat, page,
                 pageParticipants, loadingParticipants, preregisteredParticipants,
                 searchInput, searchTimeout, searching, loadingPreregistered,
                 changed, rendered>>

\* the postgres_changes notifications of table pre_registered_participants
\* that the channel of the page gets for n changed rows of event e
NotifiedChange(e, n) ==
  IF page # "closed" /\ e = currentEventId /\ n > 0
  THEN (IF changed + n <= MaxChanged THEN changed + n ELSE MaxChanged)
  ELSE changed

\* the channel delivers a notification of table pre_registered_participants:
\* loadPreregisteredParticipants() sends its query
PreregChanged ==
  /\ changed > 0
  /\ changed' = changed - 1
  /\ loadingPreregistered' = loadingPreregistered \cup {Sent("later")}
  /\ UNCHANGED <<dbvars, uvars, cvars, hvars, svars, stat, page, pageParticipants,
                 loadingParticipants, inserted, preregisteredParticipants,
                 searchInput, searchTimeout, searching, rendered>>

\* the row #preregisterBody shows for candidate id has a Register button
HasRegisterButton(id) ==
  \E i \in 1..Len(rendered.rows) :
    rendered.rows[i].id = id /\ rendered.rows[i].row.is_registered = 0

\* registerPreregistered(preRegId), from the click to the answer of
\* supabase.from('pre_registered_participants').select('*').eq('id', preRegId)
\*   .single(): no row is an error, which the catch block shows
registerPreregisteredSelect(c, id) ==
  /\ cpc[c] = "idle"
  /\ HasRegisterButton(id)
  /\ nextPartId - 1 + ConvertsBeforeInsert + 1 <= MaxPartId
  /\ IF id \notin DOMAIN prereg
     THEN UNCHANGED <<cpc, cev, cid, cpreReg>>
     ELSE /\ cev' = [cev EXCEPT ![c] = currentEventId]
          /\ cid' = [cid EXCEPT ![c] = id]
          /\ cpreReg' = [cpreReg EXCEPT ![c] = prereg[id]]
          /\ cpc' = [cpc EXCEPT ![c] = "page-insert"]
  /\ UNCHANGED <<dbvars, uvars, carea, cinserted, hvars, svars, stat, bvars>>

\* participantData of registerPreregistered
ParticipantDataOf(preReg) ==
  [event_id |-> currentEventId,
   full_name |-> Or(preReg.full_name, Or(preReg.identifier_value, "Unknown")),
   email |-> Or(preReg.email, TempEmail(preReg.identifier_value)),
   area |-> Or(preReg.area, "Not specified")]

\* supabase.from('participants').insert([participantData]).select().single()
registerPreregisteredInsert(c) ==
  /\ cpc[c] = "page-insert"
  /\ participants' = InsertParticipant(participants, nextPartId,
                                       ParticipantDataOf(cpreReg[c]))
  /\ origin' = [k \in DOMAIN origin \cup {nextPartId} |->
                  IF k = nextPartId THEN cid[c] ELSE origin[k]]
  /\ cinserted' = [cinserted EXCEPT ![c] = nextPartId]
  /\ nextPartId' = nextPartId + 1
  /\ inserted' = NotifiedInsert(nextPartId, currentEventId)
  /\ cpreReg' = [cpreReg EXCEPT ![c] = NoRow]
  /\ cpc' = [cpc EXCEPT ![c] = "page-update"]
  /\ UNCHANGED <<prereg, nextPreId, uvars, cev, cid, carea, since, uold, svars, stat,
                 page, pageParticipants, loadingParticipants,
                 preregisteredParticipants, searchInput, searchTimeout, searching,
                 loadingPreregistered, changed, rendered>>

\* supabase.from('pre_registered_participants').update({ is_registered: true,
\*   registered_participant_id: newParticipant.id }).eq('id', preRegId), then
\* loadPreregisteredParticipants() sends its query
registerPreregisteredUpdate(c) ==
  /\ cpc[c] = "page-update"
  /\ prereg' = MarkRegistered(prereg, cid[c], cinserted[c])
  /\ changed' = IF cid[c] \in DOMAIN prereg
                THEN NotifiedChange(prereg[cid[c]].event_id, 1) ELSE changed
  /\ loadingPreregistered' = loadingPreregistered \cup {Sent("later")}
  /\ cinserted' = [cinserted EXCEPT ![c] = 0]
  /\ cid' = [cid EXCEPT ![c] = 0]
  /\ cev' = [cev EXCEPT ![c] = 1]
  /\ cpc' = [cpc EXCEPT ![c] = "idle"]
  /\ UNCHANGED <<participants, nextPreId, nextPartId, uvars, carea, cpreReg, hvars,
                 svars, stat, page, pageParticipants, loadingParticipants, inserted,
                 preregisteredParticipants, searchInput, searchTimeout, searching,
                 rendered>>

\* a record that would take the identifier cell as it is
RecordOfCell(e, analysis, row) ==
  [event_id |-> e,
   identifier_type |-> analysis.identifier_type,
   identifier_value |-> Cell(row, analysis.identifier_column),
   full_name |-> Or(Cell(row, analysis.mappings.full_name), Null),
   email |-> Or(Cell(row, analysis.mappings.email), Null),
   dni |-> Or(Cell(row, analysis.mappings.dni), Null),
   area |-> Or(Cell(row, analysis.mappings.area), Null),
   raw_data |-> row,
   is_registered |-> 0,
   registered_participant_id |-> 0]

\* the record uploadExcelFile makes of a row: excelData.map(row => ({...}))
RecordOf(e, analysis, row) ==
  [event_id |-> e,
   identifier_type |-> analysis.identifier_type,
   identifier_value |-> Or(Cell(row, analysis.identifier_column), "Unknown"),
   full_name |-> Or(Cell(row, analysis.mappings.full_name), Null),
   email |-> Or(Cell(row, analysis.mappings.email), Null),
   dni |-> Or(Cell(row, analysis.mappings.dni), Null),
   area |-> Or(Cell(row, analysis.mappings.area), Null),
   raw_data |-> row,
   is_registered |-> 0,
   registered_participant_id |-> 0]

\* uploadExcelFile(), up to the fetch of /.netlify/functions/process-excel:
\* the function answers 500 for an empty sheet, and the catch block shows it
uploadExcelFile(u, f) ==
  /\ upc[u] = "idle"
  /\ page = "ready"
  /\ IF f = << >>
     THEN UNCHANGED <<upc, uev, ufile>>
     ELSE /\ uev' = [uev EXCEPT ![u] = currentEventId]
          /\ ufile' = [ufile EXCEPT ![u] = f]
          /\ upc' = [upc EXCEPT ![u] = "page-ai"]
  /\ UNCHANGED <<dbvars, uqueue, unew, cvars, hvars, svars, stat, bvars>>

\* process-excel answers 200 with { analysis, data } (an analysis that has
\* its mappings object); the DELETE of the event's candidates runs and the
\* records are made
uploadExcelDelete(u, r) ==
  /\ upc[u] = "page-ai"
  /\ r.kind = "json"
  /\ nextPreId - 1 + Reserved + Len(ufile[u]) <= MaxPreId
  /\ prereg' = DeletePreregByEvent(prereg, currentEventId)
  /\ changed' = NotifiedChange(currentEventId,
                               Cardinality(PreregOfEvent(prereg, currentEventId)))
  /\ uqueue' = [uqueue EXCEPT ![u] =
                  [i \in 1..Len(ufile[u]) |-> RecordOf(currentEventId, r, ufile[u][i])]]
  /\ ufile' = [ufile EXCEPT ![u] = << >>]
  /\ upc' = [upc EXCEPT ![u] = "page-insert"]
  /\ UNCHANGED <<participants, nextPreId, nextPartId, uev, unew, cvars, hvars, svars,
                 stat, page, pageParticipants, loadingParticipants, inserted,
                 preregisteredParticipants, searchInput, searchTimeout, searching,
                 loadingPreregistered, rendered>>

\* the rows of one insert(records), ids in the order of the records
RECURSIVE InsertAll(_, _, _)
InsertAll(p, id, records) ==
  IF records = << >> THEN p
  ELSE InsertAll(InsertPrereg(p, id, Head(records)), id + 1, Tail(records))

\* supabase.from('pre_registered_participants').insert(records) runs, then
\* loadPreregisteredParticipants() sends its query
uploadExcelInsert(u) ==
  /\ upc[u] = "page-insert"
  /\ prereg' = InsertAll(prereg, nextPreId, uqueue[u])
  /\ nextPreId' = nextPreId + Len(uqueue[u])
  /\ changed' = NotifiedChange(currentEventId, Len(uqueue[u]))
  /\ loadingPreregistered' = loadingPreregistered \cup {Sent("later")}
  /\ uqueue' = [uqueue EXCEPT ![u] = << >>]
  /\ uev' = [uev EXCEPT ![u] = 1]
  /\ upc' = [upc EXCEPT ![u] = "idle"]
  /\ UNCHANGED <<participants, nextPartId, ufile, unew, cvars, hvars, svars, stat,
                 page, pageParticipants, loadingParticipants, inserted,
                 preregisteredParticipants, searchInput, searchTimeout, searching,
                 rendered>>

\* supabase.from('pre_registered_participants').select('*')
\*   .eq('event_id', currentEventId).order('uploaded_at', { ascending: false })
\* (uploaded_at is NOW() of the insert; the rows of one insert share it and
\* are taken by descending id)
SelectPreregisteredOfPage(p, e) ==
  LET ids == IdsDescending(PreregOfEvent(p, e))
  IN [i \in 1..Len(ids) |-> [id |-> ids[i], row |-> p[ids[i]]]]

\* the store runs the query of one loadPreregisteredParticipants
LoadPreregisteredQuery ==
  \E r \in loadingPreregistered :
    /\ r.state = "sent"
    /\ loadingPreregistered' =
         (loadingPreregistered \ {r})
           \cup {Answered(r.by, SelectPreregisteredOfPage(prereg, currentEventId))}
    /\ UNCHANGED <<dbvars, uvars, cvars, hvars, svars, stat, page, pageParticipants,
                   loadingParticipants, inserted, preregisteredParticipants,
                   searchInput, searchTimeout, searching, changed, rendered>>

\* one loadPreregisteredParticipants gets its response:
\* preregisteredParticipants = data || []; renderPreregistered(); when it is
\* the one DOMContentLoaded awaits, the setup functions run
LoadPreregisteredResponse ==
  \E r \in loadingPreregistered :
    /\ r.state = "answered"
    /\ loadingPreregistered' = loadingPreregistered \ {r}
    /\ preregisteredParticipants' = r.data
    /\ rendered' = [query |-> "", rows |-> RenderPreregistered(r.data)]
    /\ page' = IF r.by = "DOMContentLoaded" THEN "ready" ELSE page
    /\ UNCHANGED <<dbvars, uvars, cvars, hvars, svars, stat, pageParticipants,
                   loadingParticipants, inserted, searchInput, searchTimeout,
                   searching, changed>>

\* what the input event handler makes of the value of #preregSearchInput:
\* e.target.value.toLowerCase().trim()
ToLowerCaseTrim(v) ==
  CASE v = "AN" -> "an"
    [] v = "2 " -> "2"
    [] OTHER -> v

\* the values typed into #preregSearchInput
Typed == {"", "AN", "2 "}

\* .eq('event_id', currentEventId).eq('is_registered', false)
\* .or(full_name.ilike.%q%, email.ilike.%q%, dni.ilike.%q%,
\*     identifier_value.ilike.%q%)
PageSearchMatches(r, e, q) ==
  /\ r.event_id = e
  /\ r.is_registered = 0
  /\ \/ ColumnLike(r.full_name, q)
     \/ ColumnLike(r.email, q)
     \/ ColumnLike(r.dni, q)
     \/ ColumnLike(r.identifier_value, q)

\* the orders in which a query without .order() may return the rows of S
RECURSIVE Orderings(_)
Orderings(S) ==
  IF S = {} THEN {<< >>}
  ELSE UNION {{<<x>> \o rest : rest \in Orderings(S \ {x})} : x \in S}

\* the results the search query may give on table p: .limit(50)
PageSearchResults(p, e, q) ==
  {[i \in 1..(IF Len(ids) <= SearchLimit THEN Len(ids) ELSE SearchLimit)
      |-> [id |-> ids[i], row |-> p[ids[i]]]] :
     ids \in Orderings({k \in DOMAIN p : PageSearchMatches(p[k], e, q)})}

\* the input event of #preregSearchInput with value v: clearTimeout, then
\* renderPreregistered() for an empty query, a new timer otherwise
SearchInput(v) ==
  /\ page = "ready"
  /\ v # searchInput
  /\ searchInput' = v
  /\ IF ToLowerCaseTrim(v) = ""
     THEN /\ searchTimeout' = ""
          /\ rendered' = [query |-> "",
                          rows |-> RenderPreregistered(preregisteredParticipants)]
     ELSE /\ searchTimeout' = ToLowerCaseTrim(v)
          /\ UNCHANGED rendered
  /\ UNCHANGED <<dbvars, uvars, cvars, hvars, svars, stat, page, pageParticipants,
                 loadingParticipants, inserted, preregisteredParticipants,
                 searching, loadingPreregistered, changed>>

\* the 300 ms of the timer have passed: its callback sends the search
SearchTimeoutFires ==
  /\ searchTimeout # ""
  /\ searching' = searching
       \cup {[query |-> searchTimeout, state |-> "sent", data |-> << >>]}
  /\ searchTimeout' = ""
  /\ UNCHANGED <<dbvars, uvars, cvars, hvars, svars, stat, page, pageParticipants,
                 loadingParticipants, inserted, preregisteredParticipants,
                 searchInput, loadingPreregistered, changed, rendered>>

\* the store runs one search
SearchQuery ==
  \E r \in searching :
    /\ r.state = "sent"
    /\ \E data \in PageSearchResults(prereg, currentEventId, r.query) :
         searching' = (searching \ {r})
                        \cup {[r EXCEPT !.state = "answered", !.data = data]}
    /\ UNCHANGED <<dbvars, uvars, cvars, hvars, svars, stat, page, pageParticipants,
                   loadingParticipants, inserted, preregisteredParticipants,
                   searchInput, searchTimeout, loadingPreregistered, changed,
                   rendered>>

\* one search gets its response: renderPreregistered(data)
SearchResponse ==
  \E r \in searching :
    /\ r.state = "answered"
    /\ searching' = searching \ {r}
    /\ rendered' = [query |-> r.query, rows |-> r.data]
    /\ UNCHANGED <<dbvars, uvars, cvars, hvars, svars, stat, page, pageParticipants,
                   loadingParticipants, inserted, preregisteredParticipants,
                   searchInput, searchTimeout, loadingPreregistered, changed>>

\* ---------------------------------------------------------------- spec
\* the steps of convert request c
ConvertStep(c, areas) ==
  \/ \E e \in Events, id \in 1..MaxPreId, a \in areas : ConvertSelect(c, e, id, a)
  \/ ConvertInsert(c)
  \/ ConvertUpdate(c)

\* Conversion: two convert requests race; one upload at a time, with an
\* oracle that answers well, fills and replaces the candidate sets; the
\* candidates are cleared and participants deleted.
NextConvert ==
  \/ \E c \in Converts : ConvertStep(c, NoOverride)
  \/ \E i \in FillInputs : UploadRequest("u1", i[1], i[2])
  \/ UploadDelete("u1", OracleGood)
  \/ UploadInsert("u1")
  \/ UploadFinalize("u1")
  \/ \E e \in Events : ClearPreregistered(e)
  \/ \E e \in Events, id \in 1..MaxPartId : DeleteParticipant(e, id)

SpecConvert == Init /\ [][NextConvert]_vars

\* Replace: two upload requests race, with every oracle reply, readers, a
\* clear and one convert request at a time.
NextUpload ==
  \/ \E u \in Uploads, i \in UploadInputs : UploadRequest(u, i[1], i[2])
  \/ \E u \in Uploads, r \in OracleResponses : UploadOracleFails(u, r)
  \/ \E u \in Uploads, r \in OracleResponses : UploadDelete(u, r)
  \/ \E u \in Uploads : UploadInsert(u)
  \/ \E u \in Uploads : UploadFinalize(u)
  \/ ConvertStep("c1", NoOverride)
  \/ \E e \in Events : ClearPreregistered(e)
  \/ \E e \in Events : ListPreregistered(e)

SpecUpload == Init /\ [][NextUpload]_vars

\* Isolation of events: two upload requests, to either event, with an
\* oracle that answers well, a clear and one convert request at a time.
NextEvents ==
  \/ \E u \in Uploads, i \in FillInputs : UploadRequest(u, i[1], i[2])
  \/ \E u \in Uploads : UploadDelete(u, OracleGood)
  \/ \E u \in Uploads : UploadInsert(u)
  \/ \E u \in Uploads : UploadFinalize(u)
  \/ ConvertStep("c1", NoOverride)
  \/ \E e \in Events : ClearPreregistered(e)

SpecEvents == Init /\ [][NextEvents]_vars

\* Registration desk: one upload at a time fills the candidate sets, one
\* convert request at a time, with or without an area override, and readers
\* that list and search.
NextRegister ==
  \/ \E i \in FillInputs : UploadRequest("u1", i[1], i[2])
  \/ UploadDelete("u1", OracleGood)
  \/ UploadInsert("u1")
  \/ UploadFinalize("u1")
  \/ ConvertStep("c1", AreaOverrides)
  \/ \E e \in Events : ListPreregistered(e)
  \/ \E e \in Events, q \in Queries : SearchPreregistered(e, q)

SpecRegister == Init /\ [][NextRegister]_vars

\* Broadcast: browsers open and close GET /events while candidates are
\* uploaded and converted and participants registered by hand.
NextBroadcast ==
  \/ \E s \in Clients : Subscribe(s)
  \/ \E s \in Clients : Disconnect(s)
  \/ \E i \in FillInputs : UploadRequest("u1", i[1], i[2])
  \/ UploadDelete("u1", OracleGood)
  \/ UploadInsert("u1")
  \/ UploadFinalize("u1")
  \/ ConvertStep("c1", NoOverride)
  \/ \E e \in Events : RegisterParticipant(e)

SpecBroadcast == Init /\ [][NextBroadcast]_vars

\* the uploads of one candidate, to either event
OneRowInputs == {<<1, <<RowAna>>>>, <<2, <<RowAna>>>>}

\* Transport: browsers open GET /events, stop reading and go away while
\* candidates are uploaded and converted and participants registered by
\* hand.
NextTransport ==
  \/ \E s \in Clients : Subscribe(s)
  \/ \E s \in Clients : Stall(s)
  \/ \E s \in Clients : Disconnect(s)
  \/ \E i \in OneRowInputs : UploadRequest("u1", i[1], i[2])
  \/ UploadDelete("u1", OracleGood)
  \/ UploadInsert("u1")
  \/ UploadFinalize("u1")
  \/ ConvertStep("c1", NoOverride)
  \/ \E e \in Events : RegisterParticipant(e)

SpecTransport == Init /\ [][NextTransport]_vars

\* Registered list of the page: the page opens and loads while participants
\* are registered through the quick-add form, here and at another desk.
NextPage ==
  \/ PageOpen
  \/ LoadParticipantsQuery
  \/ LoadParticipantsResponse
  \/ \E id \in 1..MaxPartId : ParticipantInserted(id)
  \/ \E e \in Events : QuickAddSubmit(e)
  \/ LoadPreregisteredQuery
  \/ LoadPreregisteredResponse

SpecPage == Init /\ [][NextPage]_vars

\* the files uploaded from the page
PageFiles == {<<RowAna>>, <<RowAna, RowBob>>}

\* the steps of one click on a Register button of the page
RegisterClick(c) ==
  \/ \E id \in 1..MaxPreId : registerPreregisteredSelect(c, id)
  \/ registerPreregisteredInsert(c)
  \/ registerPreregisteredUpdate(c)

\* Desk: the page opens, uploads a file and registers candidates, one click
\* at a time, while its lists reload, on its own calls and on notifications.
NextDesk ==
  \/ PageOpen
  \/ LoadParticipantsQuery
  \/ LoadParticipantsResponse
  \/ LoadPreregisteredQuery
  \/ LoadPreregisteredResponse
  \/ PreregChanged
  \/ \E f \in PageFiles : uploadExcelFile("u1", f)
  \/ uploadExcelDelete("u1", OracleGood)
  \/ uploadExcelInsert("u1")
  \/ RegisterClick("c1")

SpecDesk == Init /\ [][NextDesk]_vars

\* Statistics: a stats request runs its four queries while candidates are
\* uploaded and converted.
NextStats ==
  \/ \E e \in Events : StatsTotal(e)
  \/ StatsByArea
  \/ StatsPreTotal
  \/ StatsPreRegistered
  \/ \E i \in FillInputs : UploadRequest("u1", i[1], i[2])
  \/ UploadDelete("u1", OracleGood)
  \/ UploadInsert("u1")
  \/ UploadFinalize("u1")
  \/ ConvertStep("c1", NoOverride)

SpecStats == Init /\ [][NextStats]_vars

\* Search box: queries are typed on the open page while a file is uploaded
\* from it and the channel notifies the changes.
NextSearch ==
  \/ PageOpen
  \/ LoadParticipantsQuery
  \/ LoadParticipantsResponse
  \/ LoadPreregisteredQuery
  \/ LoadPreregisteredResponse
  \/ PreregChanged
  \/ \E v \in Typed : SearchInput(v)
  \/ SearchTimeoutFires
  \/ SearchQuery
  \/ SearchResponse
  \/ uploadExcelFile("u1", <<RowAna, RowBob>>)
  \/ uploadExcelDelete("u1", OracleGood)
  \/ uploadExcelInsert("u1")

SpecSearch == Init /\ [][NextSearch]_vars

\* the files uploaded from the page while ingestion is watched
IngestFiles == {<<RowAna>>, <<RowCid, RowBob>>}

\* Ingestion: files, some with rows that lack the identifier, are uploaded
\* through the server's handler and from the page.
NextIngest ==
  \/ PageOpen
  \/ LoadParticipantsQuery
  \/ LoadParticipantsResponse
  \/ LoadPreregisteredQuery
  \/ LoadPreregisteredResponse
  \/ \E i \in FillInputs : UploadRequest("u1", i[1], i[2])
  \/ UploadDelete("u1", OracleGood)
  \/ UploadInsert("u1")
  \/ UploadFinalize("u1")
  \/ \E f \in IngestFiles : uploadExcelFile("u2", f)
  \/ uploadExcelDelete("u2", OracleGood)
  \/ uploadExcelInsert("u2")

SpecIngest == Init /\ [][NextIngest]_vars

\* ============================================================== claims
\* what GET .../preregistered answers for event e, and whether its rows are
\* the candidates X, whatever the order
Listed(e) == SelectPreregistered(prereg, e)

SameMembers(rows, X) ==
  /\ Len(rows) = Len(X)
  /\ \E f \in [1..Len(rows) -> 1..Len(rows)] :
       /\ \A i, j \in 1..Len(rows) : f[i] = f[j] => i = j
       /\ \A i \in 1..Len(rows) : Content(rows[i].row) = X[f[i]]

\* the participants that convert requests created for candidate k
RegistrationsOf(k) == {p \in DOMAIN participants : origin[p] = k}

\* convert request c is at its UPDATE and this step runs it
MarksConverted(c) == cpc[c] = "update" /\ cpc'[c] = "idle"

\* C1: two concurrent converts of one unconverted candidate leave exactly one
\* Registration (so one of the calls failed), and no Registration that a
\* convert created is left unlinked from its candidate.  Stated for every
\* candidate on which no convert is in flight.
C1_ExactlyOneRegistration ==
  \A k \in DOMAIN prereg :
    (\A c \in Converts : cid[c] # k) =>
      /\ Cardinality(RegistrationsOf(k)) <= 1
      /\ \A p \in RegistrationsOf(k) : prereg[k].registered_participant_id = p

\* C2: the mark-converted write is conditional: issued against a candidate
\* that is already converted, it is rejected and leaves the stored flag and
\* link as they were.
C2_ConditionalWrite ==
  [][\A c \in Converts :
       (MarksConverted(c) /\ cid[c] \in DOMAIN prereg
          /\ prereg[cid[c]].is_registered = 1)
       => prereg'[cid[c]] = prereg[cid[c]]]_vars

\* C3: once a candidate's registration link is set it never changes while
\* the candidate exists, and no two candidates link to the same Registration.
C3_LinkPermanent ==
  [][/\ \A k \in DOMAIN prereg \cap DOMAIN prereg' :
          prereg[k].registered_participant_id # 0
          => prereg'[k].registered_participant_id = prereg[k].registered_participant_id
     /\ \A j, k \in DOMAIN prereg' :
          (j # k /\ prereg'[j].registered_participant_id # 0)
          => prereg'[j].registered_participant_id # prereg'[k].registered_participant_id]_vars

\* C4: a candidate's converted flag is set iff its registration link is set
\* and refers to an existing Registration of the candidate's event.
C4_FlagIffLiveLink ==
  \A k \in DOMAIN prereg :
    (prereg[k].is_registered = 1) <=>
      /\ prereg[k].registered_participant_id # 0
      /\ prereg[k].registered_participant_id \in DOMAIN participants
      /\ participants[prereg[k].registered_participant_id].event_id = prereg[k].event_id

\* C5: a candidate is born Pending, becomes Converted only by the UPDATE of
\* a convert request on it, and its converted flag never goes back to 0
\* while it exists.
C5_OneWay ==
  [][/\ \A k \in DOMAIN prereg \cap DOMAIN prereg' :
          /\ prereg[k].is_registered = 1 => prereg'[k].is_registered = 1
          /\ (prereg[k].is_registered = 0 /\ prereg'[k].is_registered = 1)
             => \E c \in Converts : MarksConverted(c) /\ cid[c] = k
     /\ \A k \in DOMAIN prereg' \ DOMAIN prereg : prereg'[k].is_registered = 0]_vars

\* C5 witness: a converted candidate whose flag has survived a second
\* UPDATE of a racing convert and the deletion of a participant made for it
C5_Witness ==
  \E k \in DOMAIN prereg :
    /\ prereg[k].is_registered = 1
    /\ nextPartId > 2
    /\ Cardinality(RegistrationsOf(k)) = 1
    /\ \A c \in Converts : cpc[c] = "idle"

\* every statement of upload u's replace has run
Replaced(u) == (upc[u] = "insert" /\ uqueue[u] = << >>) \/ Finished(u)

\* C7: after a replace with X, with no other write to the event's candidates
\* since the replace began, the list of the event's candidates is exactly
\* the members of X, whatever the order, and nothing of an earlier set.
C7_ReplaceThenList ==
  \A u \in Uploads :
    (Replaced(u) /\ since[u] = {}) => SameMembers(Listed(uev[u]), unew[u])

\* C7 witness: a replace that found an earlier, different set has run all
\* its statements undisturbed
C7_Witness ==
  \E u \in Uploads :
    /\ upc[u] = "insert" /\ uqueue[u] = << >> /\ since[u] = {}
    /\ uold[u] # << >> /\ unew[u] # << >> /\ uold[u] # unew[u]

\* C6: while a replace is in progress (and nobody else writes the event's
\* candidates), a list observes the complete old set or the complete new one.
C6_AllOrNothing ==
  \A u \in Uploads :
    (upc[u] = "insert" /\ since[u] = {}) =>
      \/ SameMembers(Listed(uev[u]), uold[u])
      \/ SameMembers(Listed(uev[u]), unew[u])

\* C8: once two overlapping uploads to one event have both finished, the
\* event's candidates are exactly the set of one of the two.
C8_LastReplaceWins ==
  \A u, v \in Uploads :
    (u # v /\ Finished(u) /\ Finished(v) /\ uev[u] = uev[v]
       /\ since[u] \subseteq {"upload"} /\ since[v] \subseteq {"upload"})
    => \/ SameMembers(Listed(uev[u]), unew[u])
       \/ SameMembers(Listed(uev[u]), unew[v])

\* the headers of a parsed file: Object.keys(jsonData[0])
HeadersOf(f) == DOMAIN f[1]

\* the reply names an identifier column, or a mapped column, that is not a
\* header of the file
NamesAbsentColumn(r, f) ==
  /\ r.kind = "json"
  /\ r.identifier_column # Null
  /\ \/ r.identifier_column \notin HeadersOf(f)
     \/ \E m \in DOMAIN r.mappings :
          r.mappings[m] # Null /\ r.mappings[m] \notin HeadersOf(f)

\* the reply does not parse, or parses to something that is no mapping
Malformed(r) == r.kind = "badjson" \/ (r.kind = "json" /\ r.identifier_column = Null)

\* upload u takes reply r of the oracle in this step
TakesReply(u, r) == UploadOracleFails(u, r) \/ UploadDelete(u, r)

\* C9: a reply that names a column absent from the file's headers ends the
\* upload in an error, with no candidate persisted and the event's earlier
\* candidates untouched.
C9_MappingError ==
  [][\A u \in Uploads, r \in OracleResponses :
       (upc[u] = "ai" /\ NamesAbsentColumn(r, ufile[u]) /\ TakesReply(u, r))
       => (upc'[u] = "idle" /\ prereg' = prereg)]_vars

\* C10: when the oracle call fails or its reply is malformed, the upload
\* deletes and inserts nothing.
C10_NoReplaceOnFailure ==
  [][\A u \in Uploads, r \in OracleResponses :
       (upc[u] = "ai" /\ (r.kind = "throw" \/ Malformed(r)) /\ TakesReply(u, r))
       => (upc'[u] = "idle" /\ prereg' = prereg)]_vars

\* this step runs a statement of upload u's replace: its DELETE, or one of
\* its INSERTs
ReplaceStep(u) ==
  \/ upc[u] = "ai" /\ upc'[u] = "insert"
  \/ upc[u] = "insert" /\ uqueue'[u] # uqueue[u]

\* the candidates of the events other than e are left as they are
OtherEventsUntouched(e) ==
  \A k \in DOMAIN prereg :
    prereg[k].event_id # e => (k \in DOMAIN prereg' /\ prereg'[k] = prereg[k])

\* C11: a replace of event A's candidates, and a clear of them, leave every
\* candidate of every other event unchanged, whatever runs on the other
\* events meanwhile.
C11_EventsIsolated ==
  [][/\ \A u \in Uploads : ReplaceStep(u) => OtherEventsUntouched(uev[u])
     /\ \A e \in Events : ClearPreregistered(e) => OtherEventsUntouched(e)]_vars

\* C11 witness: the replace of event 1 has run its DELETE while an upload
\* to event 2 is in flight and event 2 has its candidate
C11_Witness ==
  \E u, v \in Uploads :
    /\ upc[u] = "insert" /\ uev[u] = 1
    /\ upc[v] = "insert" /\ uev[v] = 2
    /\ PreregOfEvent(prereg, 2) # {}

\* C12: a replace of an event's candidates, and a clear of them, delete and
\* modify no Registration, those converted from the old candidates included.
C12_RegistrationsKept ==
  [][/\ \A u \in Uploads : ReplaceStep(u) => participants' = participants
     /\ \A e \in Events : ClearPreregistered(e) => participants' = participants]_vars

\* C12 witness: a Registration converted from a candidate is there after
\* the candidate has been replaced or cleared away
C12_Witness ==
  \E p \in DOMAIN participants :
    /\ origin[p] # 0
    /\ origin[p] \notin DOMAIN prereg
    /\ \A c \in Converts : cpc[c] = "idle"

\* what GET .../preregistered/search?q= answers for event e
Searched(e, q) == SearchPreregisteredRows(prereg, e, q)

\* no row of a response is a converted candidate
NoneConverted(rows) == \A i \in 1..Len(rows) : rows[i].row.is_registered = 0

ContainsFolded(txt, q) ==
  \E i \in 0..(Len(txt) - Len(q)) :
    \A j \in 1..Len(q) : Lower(txt[i + j]) = Lower(q[j])

\* one of the four searched fields of the row contains the query
FieldContains(r, q) ==
  \E v \in {r.full_name, r.email, r.dni, r.identifier_value} :
    v # Null /\ ContainsFolded(Chars(v), Chars(q))

\* C14: a search returns only unconverted candidates of the event with a
\* searched field that contains the query, whatever the case; at most 50 of
\* them; ordered by full name ascending.
C14_SearchContract ==
  \A e \in Events, q \in Queries :
    LET rows == Searched(e, q)
    IN /\ Len(rows) <= 50
       /\ \A i \in 1..Len(rows) :
            /\ rows[i].row.event_id = e
            /\ rows[i].row.is_registered = 0
            /\ FieldContains(rows[i].row, q)
       /\ \A i, j \in 1..Len(rows) :
            i < j => NameRank(rows[i].row.full_name) <= NameRank(rows[j].row.full_name)

\* no candidate of event e has this id
NotInEvent(id, e) == ~(id \in DOMAIN prereg /\ prereg[id].event_id = e)

\* convert request c creates its Registration in this step
CreatesRegistration(c) == cpc[c] = "insert" /\ cpc'[c] = "update"

\* C15: a convert of a candidate id that is not among the candidates of the
\* event (also when it is a candidate of another event) is answered not
\* found, creates no Registration and changes no candidate.
C15_NotFound ==
  [][\A e \in Events, id \in 1..MaxPreId :
       NotInEvent(id, e) =>
         /\ ConvertRefusal(prereg, id, e).status = 404
         /\ \A c \in Converts, a \in AreaOverrides :
              ConvertSelect(c, e, id, a) =>
                (cpc'[c] = "idle" /\ prereg' = prereg /\ participants' = participants
                 /\ nextPartId' = nextPartId)]_vars

\* C15 witness: a candidate of event 2 that is still unconverted and that
\* no convert of event 1 gets hold of: the convert answers 404 and there is
\* no Registration
C15_Witness ==
  \E k \in DOMAIN prereg :
    /\ prereg[k].event_id = 2
    /\ prereg[k].is_registered = 0
    /\ ConvertRefusal(prereg, k, 1) = NotFoundOrRegistered
    /\ DOMAIN participants = {}
    /\ \A c \in Converts : cpc[c] = "idle"

\* C16: a convert that fails because the candidate is not in the event and
\* one that fails because the candidate is already converted give different
\* error results.
C16_DistinctFailures ==
  \A e \in Events, absent, done \in 1..MaxPreId :
    (/\ NotInEvent(absent, e)
     /\ ~NotInEvent(done, e)
     /\ prereg[done].is_registered = 1)
    => ConvertRefusal(prereg, absent, e) # ConvertRefusal(prereg, done, e)

\* C17: the Registration of a candidate without email gets the candidate's
\* identifier value followed by "@temp.com"; the Registration of a candidate
\* with an email gets that email.
C17_EmailFallback ==
  [][\A c \in Converts :
       CreatesRegistration(c) =>
         /\ nextPartId \in DOMAIN participants'
         /\ participants'[nextPartId].email =
              (IF cpreReg[c].email = Null
               THEN cpreReg[c].identifier_value \o "@temp.com"
               ELSE cpreReg[c].email)]_vars

\* C17 witness: Registrations converted from a candidate without email
\* (identifier 22) and from one with an email
C17_Witness ==
  \E p, q \in DOMAIN participants :
    /\ origin[p] # 0 /\ participants[p].email = "22@temp.com"
    /\ origin[q] # 0 /\ participants[q].email = "ana@x.org"

\* C18: the Registration's area is the override of the request when there
\* is one, else the candidate's area when it has one, else "Not specified".
C18_AreaFallback ==
  [][\A c \in Converts :
       CreatesRegistration(c) =>
         /\ nextPartId \in DOMAIN participants'
         /\ participants'[nextPartId].area =
              (IF carea[c] # Null THEN carea[c]
               ELSE IF cpreReg[c].area # Null THEN cpreReg[c].area
               ELSE "Not specified")]_vars

\* C18 witness: a Registration that took the override although its
\* candidate had an area, and one that fell back to "Not specified"
C18_Witness ==
  \E p, q \in DOMAIN participants :
    /\ origin[p] # 0 /\ participants[p].area = "HR" /\ participants[p].full_name = "Ana"
    /\ origin[q] # 0 /\ participants[q].area = "Not specified"

\* what this step writes to client s
Written(s) == IF received'[s] # received[s] THEN received'[s] ELSE << >>

\* the change message m describes is in the store once the step is done
Visible(m) ==
  CASE m.type = "preregister_uploaded" ->
         Cardinality(PreregOfEvent(prereg', m.eventId)) = m.count
    [] m.type = "new_participant" ->
         /\ m.id \in DOMAIN participants'
         /\ participants'[m.id] = m.participant
         /\ participants'[m.id].event_id = m.eventId
    [] m.type = "preregistered_updated" ->
         /\ m.id \in DOMAIN prereg'
         /\ prereg'[m.id].event_id = m.eventId
         /\ prereg'[m.id].is_registered = 1
    [] m.type = "preregister_cleared" -> PreregOfEvent(prereg', m.eventId) = {}
    [] m.type = "participant_deleted" -> m.id \notin DOMAIN participants'
    [] OTHER -> TRUE

\* C19: a client is written a message only once the write it describes is
\* done: no message describes a change the store does not show.
C19_PublishAfterCommit ==
  [][\A s \in Clients : \A i \in 1..Len(Written(s)) : Visible(Written(s)[i])]_vars

\* message m is among the messages written
InBatch(m, batch) == \E i \in 1..Len(batch) : batch[i] = m

\* C20: every client that is connected gets the message of every candidate
\* replace, every conversion and every registration that happens while it
\* is connected, whatever the event.
C20_DeliveredToAll ==
  [][\A s \in sseClients :
       /\ \A u \in Uploads :
            (upc[u] = "insert" /\ upc'[u] = "idle")
            => InBatch(PreregisterUploaded(u), received'[s])
       /\ \A c \in Converts :
            MarksConverted(c)
            => /\ InBatch(PreregisteredUpdated(cid[c], cev[c]), received'[s])
               /\ InBatch(NewParticipant(participants, cinserted[c], cev[c]), received'[s])
       /\ \A e \in Events :
            RegisterParticipant(e)
            => InBatch(NewParticipant(participants', nextPartId, e), received'[s])]_vars

\* C20 witness: two connected clients have both been written the two
\* messages of a conversion
C20_Witness ==
  /\ sseClients = Clients
  /\ \A s \in Clients :
       /\ Len(received[s]) = 2
       /\ received[s][1].type = "new_participant"
       /\ received[s][2].type = "preregistered_updated"

\* the event of the page a browser is on when it opens GET /events (the
\* request itself names no event: new EventSource('/events'))
ClientEvent(s) == IF s = "s1" THEN 1 ELSE 2

\* C21: a client is written the messages of the event of its page only,
\* never a message broadcast for another event.
C21_FilteredByEvent ==
  \A s \in Clients : \A i \in 1..Len(received[s]) :
    received[s][i].type # "connected" => received[s][i].eventId = ClientEvent(s)

\* C22: when the connection of a client closes, its response leaves
\* sseClients in the same step; no handler writes to a response that is not
\* in sseClients, and no response in sseClients is closed.
C22_ClosedLeaves ==
  [][\A s \in Clients :
       /\ (received[s] # << >> /\ received'[s] = << >>) => s \notin sseClients'
       /\ (s \notin sseClients /\ s \notin sseClients') => received'[s] = received[s]
       /\ s \in sseClients' => received'[s] # << >>]_vars

\* C22 witness: s1 has gone, s2 is connected and has been written a
\* registration since
C22_Witness ==
  /\ sseClients = {"s2"}
  /\ received["s1"] = << >>
  /\ received["s2"] # << >>
  /\ received["s2"][1].type = "new_participant"
  /\ nextPartId = 3

\* client s is written the messages of the replace, of the conversion or of
\* the registration by hand that this step broadcasts
ReachedBy(s) ==
  /\ \A u \in Uploads :
       (upc[u] = "insert" /\ upc'[u] = "idle")
       => InBatch(PreregisterUploaded(u), received'[s])
  /\ \A e \in Events :
       (nextPartId' = nextPartId + 1 /\ cpc' = cpc
          /\ participants'[nextPartId].event_id = e)
       => InBatch(NewParticipant(participants', nextPartId, e), received'[s])
  /\ \A c \in Converts :
       (cpc[c] = "update" /\ cpc'[c] = "idle")
       => /\ InBatch(NewParticipant(participants, cinserted[c], cev[c]), received'[s])
          /\ InBatch(PreregisteredUpdated(cid[c], cev[c]), received'[s])

\* C23: while a connected client has stalled, every broadcast still reaches
\* every other connected client, and the handler that broadcasts finishes.
C23_StalledClientAlone ==
  [][stalled \cap sseClients # {}
     => /\ \A s \in sseClients \ stalled : ReachedBy(s)
        /\ \A u \in Uploads :
             (upc[u] = "insert" /\ uqueue[u] = << >> /\ upc'[u] # "insert")
             => upc'[u] = "idle"]_vars

\* C23 witness: s1 has stalled on what it got when it connected, and s2
\* has been written the message of a replace since
C23_Witness ==
  /\ sseClients = Clients
  /\ stalled = {"s1"}
  /\ received["s1"] = <<Connected>>
  /\ received["s2"] # << >>
  /\ received["s2"][1].type = "preregister_uploaded"

\* this step broadcasts to the connected clients
Broadcasting ==
  /\ sseClients' = sseClients
  /\ \E s \in sseClients \ stalled : received'[s] # received[s]

\* C24: a broadcast that meets a stalled client removes no participant and
\* no candidate; the upload that broadcasts answers with the count of the
\* candidates it stored, and the conversion that broadcasts has marked its
\* candidate and answers.
C24_WriteStays ==
  [][(Broadcasting /\ stalled \cap sseClients # {})
     => /\ \A k \in DOMAIN participants :
             k \in DOMAIN participants' /\ participants'[k] = participants[k]
        /\ \A k \in DOMAIN prereg : k \in DOMAIN prereg'
        /\ \A u \in Uploads :
             (upc[u] = "insert" /\ upc'[u] # "insert")
             => /\ upc'[u] = "idle"
                /\ unew'[u] = unew[u]
                /\ prereg' = prereg
        /\ \A c \in Converts :
             (cpc[c] = "update" /\ cpc'[c] # "update")
             => /\ cpc'[c] = "idle"
                /\ prereg' = MarkRegistered(prereg, cid[c], cinserted[c])]_vars

\* C24 witness: s1 has stalled, s2 has been written the message of a
\* replace, the upload has answered and its candidate is stored
C24_Witness ==
  /\ sseClients = Clients
  /\ stalled = {"s1"}
  /\ Finished("u1")
  /\ received["s2"] = <<PreregisterUploaded("u1")>>
  /\ PreregOfEvent(prereg, uev["u1"]) # {}

\* C28: the participants array of the page never holds one participant id
\* twice.
C28_NoDuplicateRow ==
  \A i, j \in 1..Len(pageParticipants) :
    i # j => pageParticipants[i] # pageParticipants[j]

\* the candidate a convert request is about, at a step of the request
\* (the server's handler or registerPreregistered of the page)
TargetOf(c) == IF cpc[c] = "idle" THEN cid'[c] ELSE cid[c]

\* C25: a step of a convert request leaves every other candidate and every
\* participant that was there as they were; up to the INSERT of the
\* participant it changes neither table.
C25_ConvertFrame ==
  [][\A c \in Converts :
       cpc'[c] # cpc[c]
       => /\ \A k \in DOMAIN prereg \ {TargetOf(c)} :
               k \in DOMAIN prereg' /\ prereg'[k] = prereg[k]
          /\ \A q \in DOMAIN participants :
               q \in DOMAIN participants' /\ participants'[q] = participants[q]
          /\ cpc[c] = "idle" => (prereg' = prereg /\ participants' = participants)]_vars

\* C25 witness: of two candidates of one event, one has been converted and
\* the other is as uploaded
C25_Witness ==
  /\ \A c \in Converts : cpc[c] = "idle"
  /\ \E k, j \in DOMAIN prereg :
       /\ k # j
       /\ prereg[k].event_id = prereg[j].event_id
       /\ prereg[k].is_registered = 1
       /\ prereg[k].registered_participant_id \in DOMAIN participants
       /\ prereg[j] = Content(prereg[j])

\* C27: while no other convert request is in flight and no reload of the
\* page is awaited, a convert request goes on to create a participant only
\* for a candidate that is not converted.
C27_RepeatCreatesNothing ==
  [][\A c \in Converts :
       (/\ cpc[c] = "idle" /\ cpc'[c] # "idle"
        /\ \A d \in Converts \ {c} : cpc[d] = "idle"
        /\ loadingPreregistered = {})
       => prereg[cid'[c]].is_registered = 0]_vars

\* the cell of the identifier column in the row a candidate was made of
IdentifierCell(r) == Cell(r.raw_data, OracleGood.identifier_column)

\* C26: every stored candidate has an identifier, and no candidate is
\* stored for a row whose identifier cell is empty.
C26_NoIdentifierNoCandidate ==
  \A k \in DOMAIN prereg :
    prereg[k].identifier_value # Null /\ IdentifierCell(prereg[k]) # Null

\* C26, as the code has it: every stored candidate has an identifier; the
\* server's upload queues no row whose identifier cell is empty, and the
\* candidate the page's upload stores for such a row has the identifier
\* 'Unknown'.
C26_IdentifierNeverEmpty ==
  [][/\ \A k \in DOMAIN prereg' :
          /\ prereg'[k].identifier_value # Null
          /\ IdentifierCell(prereg'[k]) = Null => prereg'[k].identifier_value = "Unknown"
     /\ \A u \in Uploads :
          upc'[u] = "insert"
          => \A i \in 1..Len(uqueue'[u]) : IdentifierCell(uqueue'[u][i]) # Null]_vars

\* C26 witness: the page has stored a candidate for Cid's row, which has no
\* identifier cell
C26_Witness ==
  \E k \in DOMAIN prereg :
    prereg[k].raw_data = RowCid /\ prereg[k].identifier_value = "Unknown"

\* C29: the pending count a stats request answers is not negative and not
\* above the total it answers.
C29_PendingWithinTotal ==
  [][(stat.pc = "preRegistered" /\ stat'.pc = "idle")
     => LET answer == StatsResponse(stat, prereg).preRegistered
        IN answer.pending >= 0 /\ answer.pending <= answer.total]_vars

\* C30: whenever the search box holds a non-empty query and neither a timer
\* nor a search is outstanding, the list shown is the response to a search of
\* that query, or at least the rows such a search would give.
C30_ShowsLatestQuery ==
  (/\ ToLowerCaseTrim(searchInput) # ""
   /\ searchTimeout = ""
   /\ searching = {})
    => \/ rendered.query = ToLowerCaseTrim(searchInput)
       \/ rendered.rows \in PageSearchResults(prereg, currentEventId,
                                              ToLowerCaseTrim(searchInput))

====
